---- MODULE Spec2Model ----
(***************************************************************************)
(* limix.qtl.scan: the association scan orchestrator, one call of scan()   *)
(* followed step by step (src/limix/qtl/_scan.py), with the display        *)
(* context managers of src/limix/_display/_display.py and the array        *)
(* naming helper of src/limix/_data/_asarray.py.                           *)
(***************************************************************************)
EXTENDS Integers, Sequences, FiniteSets, TLC

\* Bounds of the model: traits of Y, columns of G, entries of an explicit idx.
MaxTraits == 2
NCols == 2
MaxIdx == 2

VARIABLES
    pc,        \* position in scan()
    lik_arg,   \* the lik argument as passed
    verbose,   \* the verbose argument
    lik,       \* the local lik after line 256
    lik_name,  \* the local lik_name after line 255
    data,      \* conform_dataset's output (Y, M, G, K)
    args,      \* the A, A0, A1 arguments as passed
    A, A0, A1, A01,   \* the locals after lines 273-284
    QS,        \* the covariance factorization
    scanner,   \* the ScannerWrapper returned by the fitter
    C0, C1,    \* the variance components returned by the fitter
    idx,       \* the idx argument: given or not, and its length
    iterated,  \* the entries the loop has taken from the index set so far
    fast,      \* the dictionary returned by scanner.fast_scan
    added,     \* the arguments of the add_test calls, in call order
    calls,     \* the collaborators called, in call order
    out,       \* what was written to the console
    error,     \* the exception leaving scan(), "none" if none
    result     \* the value scan() returns

vars == <<pc, lik_arg, verbose, lik, lik_name, data, args, A, A0, A1, A01, QS,
          scanner, C0, C1, idx, iterated, fast, added, calls, out, error, result>>

----------------------------------------------------------------------------
\* Strings are sequences of characters, so that str.lower() is computed.

UpperChars == <<"A","B","C","D","E","F","G","H","I","J","K","L","M",
                "N","O","P","Q","R","S","T","U","V","W","X","Y","Z">>
LowerChars == <<"a","b","c","d","e","f","g","h","i","j","k","l","m",
                "n","o","p","q","r","s","t","u","v","w","x","y","z">>

lower_char(c) ==
    IF \E i \in 1..Len(UpperChars) : UpperChars[i] = c
    THEN LowerChars[CHOOSE i \in 1..Len(UpperChars) : UpperChars[i] = c]
    ELSE c

\* str.lower()
lower(s) == [i \in 1..Len(s) |-> lower_char(s[i])]

s_normal    == <<"n","o","r","m","a","l">>
s_bernoulli == <<"b","e","r","n","o","u","l","l","i">>
s_probit    == <<"p","r","o","b","i","t">>
s_binomial  == <<"b","i","n","o","m","i","a","l">>
s_poisson   == <<"p","o","i","s","s","o","n">>

\* The names assert_likelihood accepts.
ValidLikelihoods == {s_normal, s_bernoulli, s_probit, s_binomial, s_poisson}

\* assert_likelihood(likname): passes on a supported name, raises otherwise.
assert_likelihood(name) == name \in ValidLikelihoods

\* The lik arguments tried: a name alone, or a tuple or list of a name and
\* auxiliary parameters, in several letter cases, supported and not.
LikArgs ==
         { [form |-> "str", name |-> n, aux |-> <<>>] :
              n \in { <<"N","o","r","m","a","l">>, <<"f","o","o">> } }
    \cup { [form |-> "tuple", name |-> n, aux |-> <<>>] :
              n \in { <<"P","O","I","S","S","O","N">>, <<"G","a","u","s","s">> } }
    \cup { [form |-> f, name |-> n, aux |-> <<"ntrials">>] :
              f \in {"tuple", "list"},
              n \in { <<"B","i","n","o","m","i","a","l">>, <<"f","o","o">> } }
    \cup { [form |-> "list", name |-> s_normal, aux |-> <<>>] }

\* isinstance(lik, (tuple, list)) and the wrapping of line 253
as_sequence(l) ==
    IF l.form \in {"tuple", "list"} THEN l
    ELSE [form |-> "tuple", name |-> l.name, aux |-> <<>>]

\* (lik_name,) + lik[1:] is defined for a tuple; a list makes it a TypeError.
tuple_concat_ok(l) == l.form = "tuple"

NoLik == [form |-> "unset", name |-> <<>>, aux |-> <<>>]

----------------------------------------------------------------------------
\* Matrices are sequences of rows.

eye(p) == [i \in 1..p |-> [j \in 1..p |-> IF i = j THEN 1 ELSE 0]]
zeros(p, q) == [i \in 1..p |-> [j \in 1..q |-> 0]]
ones(p, q) == [i \in 1..p |-> [j \in 1..q |-> 1]]
\* numpy.empty((p, 0)): no element, so nothing uninitialised is read
empty(p) == [i \in 1..p |-> <<>>]
NoneM == <<>>
ncolumns(X) == IF Len(X) = 0 THEN 0 ELSE Len(X[1])

\* limix._data.asarray(x, target, dims) for a two-dimensional x and a list of
\* two distinct dimension names: a DataArray named target whose axes carry
\* the names of dims, the values untouched.
NoArray == [name |-> "unset", dims |-> <<>>, values |-> NoneM]
_asarray(x, target, dims) == [name |-> target, dims |-> dims, values |-> x]

\* xarray.concat([a, b], dim="env"): the rows of a followed by those of b
concat(a, b) ==
    [name |-> a.name, dims |-> a.dims,
     values |-> [i \in 1..Len(a.values) |-> a.values[i] \o b.values[i]]]

\* X.env: the coordinate of the env axis, 0 .. size-1
env(X) == [j \in 1..ncolumns(X.values) |-> j - 1]

\* Variant: the narrow design defaults to one zero column instead of none.
default_A0_one_column(a0, ntraits) == IF a0 = NoneM THEN zeros(ntraits, 1) ELSE a0

\* The defaults of lines 273-280.
default_A(a, ntraits) == IF a = NoneM THEN eye(ntraits) ELSE a
default_A1(a1, ntraits) == IF a1 = NoneM THEN eye(ntraits) ELSE a1
default_A0(a0, ntraits) == IF a0 = NoneM THEN empty(ntraits) ELSE a0

\* The A, A0, A1 arguments tried for a model of p traits.
ArgsTried(p) ==
    [A : {NoneM, eye(p)},
     A0 : {NoneM, zeros(p, 0), ones(p, 1)},
     A1 : {NoneM, eye(p), zeros(p, 0)}]

NoArgs == [A |-> NoneM, A0 |-> NoneM, A1 |-> NoneM]

----------------------------------------------------------------------------
\* The conformed dataset: shapes, whether K was given, and finiteness.

Finiteness == {"finite", "nonfinite"}
Datasets ==
    [ntraits : 1..MaxTraits, ncols : 1..NCols,
     Y : Finiteness, M : Finiteness, K : {"None"} \cup Finiteness]
NoData == [ntraits |-> 0, ncols |-> 0, Y |-> "unset", M |-> "unset", K |-> "unset"]

\* Variant: K is left out of the finiteness check.
finite_args_without_K(d) == <<d.Y, d.M>>

\* The arguments scan() hands to assert_finite (line 270).
finite_args(d) == <<d.Y, d.M, d.K>>

\* limix.qtl._assert.assert_finite: passes when no argument holds a
\* non-finite value (an absent K holds none).
assert_finite(xs) == \A i \in 1..Len(xs) : xs[i] # "nonfinite"

----------------------------------------------------------------------------
\* The display context managers.

\* Variant: __exit__ returns a true value and suppresses the exception.
session_block_exit_suppressing(e) == TRUE

\* session_line.__exit__ and session_block.__exit__ return None, so an
\* exception raised inside the with block is never suppressed.
session_line_exit(e) == FALSE
session_block_exit(e) == FALSE

say(o, text) == IF verbose THEN Append(o, text) ELSE o

NoResult == [created |-> FALSE, tests |-> <<>>]

\* An exception e raised before the session block is entered (lines 252-257).
Raise(e) ==
    /\ pc' = "failed"
    /\ error' = e
    /\ result' = NoResult
    /\ out' = out

\* An exception e raised inside the session block, o being the console so
\* far: session_block.__exit__ reports the failure; were the exception
\* suppressed, scan() would fall off its end and return None.
RaiseInBlock(e, o) ==
    /\ out' = say(o, "session fails")
    /\ result' = NoResult
    /\ IF session_block_exit(e)
       THEN pc' = "returned" /\ error' = "none"
       ELSE pc' = "failed" /\ error' = e

\* A test index: a bare integer, or a list of integers.
PyInt(k) == [scalar |-> TRUE, cols |-> <<k>>]
PyList(ks) == [scalar |-> FALSE, cols |-> ks]

\* A selection of columns of G: one-dimensional for a bare integer index.
NoSel == [ndim |-> 0, cols |-> <<>>]

call(op) == [op |-> op, A |-> NoneM, g |-> NoSel]
call_scan(op, design, g) == [op |-> op, A |-> design, g |-> g]

----------------------------------------------------------------------------
\* The fitted null model a scanner holds: its family and what it was fitted to.
NoModel == [family |-> "unset", ntraits |-> 0, QS |-> "unset", A |-> NoneM]
NoScanner == [backend |-> "unset", null |-> NoModel]

\* idx before line 313 is reached: no index set resolved yet.
NoIdx == [given |-> FALSE, len |-> -1]

Init ==
    /\ pc = "start"
    /\ lik_arg \in LikArgs
    /\ verbose \in BOOLEAN
    /\ lik = NoLik
    /\ lik_name = <<>>
    /\ data = NoData
    /\ args = NoArgs
    /\ A = NoneM /\ A0 = NoArray /\ A1 = NoArray /\ A01 = NoArray
    /\ QS = "unset"
    /\ scanner = NoScanner
    /\ C0 = "unset" /\ C1 = "unset"
    /\ idx = NoIdx
    /\ iterated = <<>>
    /\ fast = <<>>
    /\ added = <<>>
    /\ calls = <<>>
    /\ out = <<>>
    /\ error = "none"
    /\ result = NoResult

\* Lines 252-256: wrap a bare name, lower-case the name, rebuild the tuple.
NormaliseLik ==
    /\ pc = "start"
    /\ LET l == as_sequence(lik_arg)
           n == lower(l.name)
       IN  /\ lik_name' = n
           /\ IF tuple_concat_ok(l)
              THEN /\ lik' = [form |-> "tuple", name |-> n, aux |-> l.aux]
                   /\ pc' = "assert_likelihood"
                   /\ UNCHANGED <<error, result, out>>
              ELSE /\ lik' = l
                   /\ Raise("TypeError")
    /\ UNCHANGED <<lik_arg, verbose, data, args, A, A0, A1, A01, QS, scanner,
                   C0, C1, idx, iterated, fast, added, calls>>

\* Line 257.
AssertLikelihood ==
    /\ pc = "assert_likelihood"
    /\ IF assert_likelihood(lik_name)
       THEN pc' = "conform" /\ UNCHANGED <<error, result, out>>
       ELSE Raise("InvalidLikelihood")
    /\ UNCHANGED <<lik_arg, verbose, lik, lik_name, data, args, A, A0, A1, A01,
                   QS, scanner, C0, C1, idx, iterated, fast, added, calls>>

\* Lines 259-268: enter the session block and the session line, conform the
\* dataset; conform_dataset returns a dataset or raises.
Conform ==
    /\ pc = "conform"
    /\ calls' = Append(calls, call("conform_dataset"))
    /\ LET o == say(say(out, "session starts"), "Normalising input... ")
       IN  \/ \E d \in Datasets :
                /\ data' = d
                /\ out' = say(o, "done")
                /\ pc' = "assert_finite"
                /\ UNCHANGED <<error, result>>
           \/ /\ ~session_line_exit("ShapeMismatch")
              /\ RaiseInBlock("ShapeMismatch", say(o, "failed"))
              /\ UNCHANGED data
    /\ UNCHANGED <<lik_arg, verbose, lik, lik_name, args, A, A0, A1, A01, QS,
                   scanner, C0, C1, idx, iterated, fast, added>>

\* Lines 270-271.
AssertFinite ==
    /\ pc = "assert_finite"
    /\ calls' = Append(calls, call("assert_finite"))
    /\ IF assert_finite(finite_args(data))
       THEN pc' = "defaults" /\ UNCHANGED <<error, result, out>>
       ELSE RaiseInBlock("NonFiniteInput", out)
    /\ UNCHANGED <<lik_arg, verbose, lik, lik_name, data, args, A, A0, A1, A01,
                   QS, scanner, C0, C1, idx, iterated, fast, added>>

\* Lines 273-284: default the design matrices, name their axes, concatenate.
Defaults ==
    /\ pc = "defaults"
    /\ \E a \in ArgsTried(data.ntraits) :
          /\ args' = a
          /\ A' = default_A(a.A, data.ntraits)
          /\ LET a0 == _asarray(default_A0(a.A0, data.ntraits), "env0", <<"sample", "env">>)
                 a1 == _asarray(default_A1(a.A1, data.ntraits), "env1", <<"sample", "env">>)
             IN  /\ A0' = a0
                 /\ A1' = a1
                 /\ A01' = concat(a0, a1)
    /\ pc' = "factorize"
    /\ UNCHANGED <<lik_arg, verbose, lik, lik_name, data, QS, scanner, C0, C1,
                   idx, iterated, fast, added, calls, out, error, result>>

\* Lines 286-289.
Factorize ==
    /\ pc = "factorize"
    /\ IF data.K # "None"
       THEN QS' = "economic_qs(K)" /\ calls' = Append(calls, call("economic_qs"))
       ELSE QS' = "None" /\ calls' = calls
    /\ pc' = "fit"
    /\ UNCHANGED <<lik_arg, verbose, lik, lik_name, data, args, A, A0, A1, A01,
                   scanner, C0, C1, idx, iterated, fast, added, out, error, result>>

----------------------------------------------------------------------------
\* The null model fitters.  Each returns (scanner, C0, C1) or raises.

\* _st_lmm (lines 394-408)
_st_lmm(qs) ==
    [scanner |-> [backend |-> "FastScanner",
                  null |-> [family |-> "LMM", ntraits |-> 1, QS |-> qs, A |-> NoneM]],
     C0 |-> IF qs = "None" THEN "None" ELSE "lmm.v0",
     C1 |-> "lmm.v1",
     fits |-> <<"LMM.fit">>]

\* _mt_lmm (lines 411-429)
_mt_lmm(ntraits, a, qs) ==
    [scanner |-> [backend |-> "KronFastScanner",
                  null |-> [family |-> "Kron2Sum", ntraits |-> ntraits, QS |-> qs, A |-> a]],
     C0 |-> "lmm.C0",
     C1 |-> "lmm.C1",
     fits |-> <<"Kron2Sum.fit">>]

\* _st_glmm (lines 432-450): y is Y.values.ravel(), whatever the trait count
_st_glmm(ntraits, qs) ==
    [scanner |-> [backend |-> "FastScanner",
                  null |-> [family |-> "GLMMNormal", ntraits |-> ntraits, QS |-> qs, A |-> NoneM]],
     C0 |-> "glmm.v0",
     C1 |-> "glmm.v1",
     fits |-> <<"GLMMExpFam.fit", "GLMMNormal.fit">>]

\* The dispatch of lines 291-297.
select_fitter(name, ntraits, a, qs) ==
    IF name = s_normal
    THEN IF ntraits = 1 THEN _st_lmm(qs) ELSE _mt_lmm(ntraits, a, qs)
    ELSE _st_glmm(ntraits, qs)

RECURSIVE log_fits(_, _)
log_fits(cs, fits) ==
    IF fits = <<>> THEN cs ELSE log_fits(Append(cs, call(Head(fits))), Tail(fits))
RECURSIVE say_fits(_, _)
say_fits(o, fits) ==
    IF fits = <<>> THEN o ELSE say_fits(say(o, "fit progress"), Tail(fits))

\* Lines 291-297: fit the null model; the solver converges or raises.
FitNull ==
    /\ pc = "fit"
    /\ LET f == select_fitter(lik_name, data.ntraits, A, QS)
       IN  \/ /\ scanner' = f.scanner
              /\ C0' = f.C0
              /\ C1' = f.C1
              /\ calls' = log_fits(calls, f.fits)
              /\ out' = say_fits(out, f.fits)
              /\ pc' = "factory"
              /\ UNCHANGED <<error, result>>
           \/ \E n \in 1..Len(f.fits) :
                /\ calls' = log_fits(calls, SubSeq(f.fits, 1, n))
                /\ RaiseInBlock("FittingFailure", say_fits(out, SubSeq(f.fits, 1, n)))
                /\ UNCHANGED <<scanner, C0, C1>>
    /\ UNCHANGED <<lik_arg, verbose, lik, lik_name, data, args, A, A0, A1, A01,
                   QS, idx, iterated, fast, added>>

\* Lines 299-311: the factory is built from the names, the env coordinates
\* and the scanner's null_lml, null_beta and null_beta_se.
MakeFactory ==
    /\ pc = "factory"
    /\ calls' = Append(calls, [op |-> "ScanResultFactory",
                               A |-> <<env(A0), env(A1)>>, g |-> NoSel])
    /\ pc' = "branch"
    /\ UNCHANGED <<lik_arg, verbose, lik, lik_name, data, args, A, A0, A1, A01,
                   QS, scanner, C0, C1, idx, iterated, fast, added, out, error, result>>

----------------------------------------------------------------------------
\* The scanning phase.

\* The test indices tried in an explicit idx over m columns.
Entries(m) ==
         { PyInt(k) : k \in 0..(m - 1) }
    \cup { PyList(<<k>>) : k \in 0..(m - 1) }
    \cup { PyList(<<0, k>>) : k \in 1..(IF m > 1 THEN 1 ELSE 0) }

\* Variant: the last column is left out of the default index set.
range_short(m) == [k \in 1..(m - 1) |-> PyInt(k - 1)]

\* range(G.shape[1]), the index set of lines 315 and 321
range(m) == [k \in 1..m |-> PyInt(k - 1)]

\* Variant: a bare integer index is passed on unwrapped.
_2d_sel_unwrapped(i) == i

\* _2d_sel (lines 353-359)
_2d_sel(i) == IF i.scalar THEN PyList(<<i.cols[1]>>) ELSE i

\* asarray(G[:, i], float): the columns i names, two-dimensional for a list
select(i) == [ndim |-> IF i.scalar THEN 1 ELSE 2, cols |-> i.cols]

\* What the fitted scanner computes for a design and a selection of columns:
\* a value per field, decided by the null model, the design and the columns.
RawKeys == {"lml", "effsizes0", "effsizes0_se", "effsizes1", "effsizes1_se", "scale"}
backend_scan(null, design, g) ==
    [k \in RawKeys |-> [of |-> k, null |-> null, design |-> design, g |-> g]]

\* FastScanner.fast_scan(G): one value per field and column of G
backend_fast_scan(null, m) ==
    [k \in RawKeys |->
        [j \in 1..m |-> [of |-> k, null |-> null, design |-> NoneM,
                         g |-> [ndim |-> 1, cols |-> <<j - 1>>]]]]

\* ScannerWrapper.scan (lines 384-391): ok is FALSE when the assertion fails.
ScannerWrapper_scan(sc, design, g) ==
    IF sc.backend = "FastScanner"
    THEN [ok |-> ncolumns(design.values) = 0, r |-> backend_scan(sc.null, NoneM, g)]
    ELSE [ok |-> TRUE, r |-> backend_scan(sc.null, design.values, g)]

\* Variant: a scan leaves the wrapper holding a refitted null model.
scanner_after_scan_refitted(sc) == [sc EXCEPT !.null.QS = "refitted"]

\* The wrapped scanner after ScannerWrapper.scan or fast_scan returned:
\* the wrapper only reads self._scanner.
scanner_after_scan(sc) == sc

\* _normalise_scan_names (lines 342-350)
_normalise_scan_names(r) ==
    [lml |-> r.lml,
     covariate_effsizes |-> r.effsizes0,
     covariate_effsizes_se |-> r.effsizes0_se,
     candidate_effsizes |-> r.effsizes1,
     candidate_effsizes_se |-> r.effsizes1_se,
     scale |-> r.scale]

\* Lines 313 and 320-321: which path, over which index set.
ResolveIdx ==
    /\ pc = "branch"
    /\ \E given \in BOOLEAN, n \in 0..MaxIdx :
          /\ given \/ n = 0
          /\ idx' = IF given THEN [given |-> TRUE, len |-> n]
                    ELSE [given |-> FALSE, len |-> Len(range(data.ncols))]
          /\ pc' = IF ~given /\ data.ntraits = 1 THEN "fast_scan" ELSE "loop"
    /\ UNCHANGED <<lik_arg, verbose, lik, lik_name, data, args, A, A0, A1, A01,
                   QS, scanner, C0, C1, iterated, fast, added, calls, out, error, result>>

\* Line 314.
FastScan ==
    /\ pc = "fast_scan"
    /\ calls' = Append(calls, call_scan("fast_scan", NoneM,
                                        [ndim |-> 2, cols |-> [j \in 1..data.ncols |-> j - 1]]))
    /\ scanner' = scanner_after_scan(scanner)
    /\ \/ /\ fast' = backend_fast_scan(scanner.null, data.ncols)
          /\ out' = say(out, "scan progress")
          /\ pc' = "fast_loop"
          /\ UNCHANGED <<error, result>>
       \/ /\ RaiseInBlock("ScanFailure", out)
          /\ UNCHANGED fast
    /\ UNCHANGED <<lik_arg, verbose, lik, lik_name, data, args, A, A0, A1, A01,
                   QS, C0, C1, idx, iterated, added>>

\* Variant: the broad record of the fast path is not the narrow one.
fast_h2_distinct(h1) == [h1 EXCEPT !.candidate_effsizes = h1.covariate_effsizes]

\* The broad-hypothesis record of the fast path (line 317).
fast_h2(h1) == h1

\* Lines 315-318, one iteration.
FastAdd ==
    /\ pc = "fast_loop"
    /\ Len(iterated) < idx.len
    /\ LET i == range(data.ncols)[Len(iterated) + 1]
           h1 == _normalise_scan_names([k \in RawKeys |-> fast[k][i.cols[1] + 1]])
           h2 == fast_h2(h1)
       IN  /\ iterated' = Append(iterated, i)
           /\ added' = Append(added, [id |-> i, h1 |-> h1, h2 |-> h2])
           /\ calls' = Append(calls, call("add_test"))
    /\ UNCHANGED <<pc, lik_arg, verbose, lik, lik_name, data, args, A, A0, A1, A01,
                   QS, scanner, C0, C1, idx, fast, out, error, result>>

\* Lines 323-333, one iteration: the entry is the next of range(m) when idx
\* was omitted, and the next of the given idx otherwise.
GeneralStep ==
    /\ pc = "loop"
    /\ Len(iterated) < idx.len
    /\ \E e \in (IF idx.given THEN Entries(data.ncols)
                 ELSE {range(data.ncols)[Len(iterated) + 1]}) :
         LET i == _2d_sel(e)
             g == select(i)
             r1 == ScannerWrapper_scan(scanner, A0, g)
             r2 == ScannerWrapper_scan(scanner, A01, g)
             c1 == Append(calls, call_scan("scan", A0.values, g))
             c2 == Append(c1, call_scan("scan", A01.values, g))
         IN  /\ iterated' = Append(iterated, e)
             /\ scanner' = scanner_after_scan(scanner)
             /\ IF ~r1.ok
                THEN /\ calls' = c1
                     /\ RaiseInBlock("AssertionError", out)
                     /\ UNCHANGED added
                ELSE IF ~r2.ok
                THEN /\ calls' = c2
                     /\ RaiseInBlock("AssertionError", out)
                     /\ UNCHANGED added
                ELSE \/ /\ calls' = Append(c2, call("add_test"))
                        /\ added' = Append(added,
                                       [id |-> i,
                                        h1 |-> _normalise_scan_names(r1.r),
                                        h2 |-> _normalise_scan_names(r2.r)])
                        /\ UNCHANGED <<pc, out, error, result>>
                     \/ /\ calls' = c2
                        /\ RaiseInBlock("ScanFailure", out)
                        /\ UNCHANGED added
    /\ UNCHANGED <<lik_arg, verbose, lik, lik_name, data, args, A, A0, A1, A01,
                   QS, C0, C1, idx, fast>>

\* ScanResultFactory.create(): the Result of the tests added so far.
create(tests) == [created |-> TRUE, tests |-> tests]

\* Lines 335-339, once the loop is exhausted: create, print, return; the
\* session block ends as scan() returns.
CreateAndReturn ==
    /\ pc \in {"loop", "fast_loop"}
    /\ Len(iterated) = idx.len
    /\ calls' = Append(calls, call("create"))
    /\ result' = create(added)
    /\ out' = say(say(out, "result"), "session ends")
    /\ pc' = "returned"
    /\ UNCHANGED <<lik_arg, verbose, lik, lik_name, data, args, A, A0, A1, A01,
                   QS, scanner, C0, C1, idx, iterated, fast, added, error>>

Next ==
    \/ NormaliseLik
    \/ AssertLikelihood
    \/ Conform
    \/ AssertFinite
    \/ Defaults
    \/ Factorize
    \/ FitNull
    \/ MakeFactory
    \/ ResolveIdx
    \/ FastScan
    \/ FastAdd
    \/ GeneralStep
    \/ CreateAndReturn

Spec == Init /\ [][Next]_vars

----------------------------------------------------------------------------
\* Vocabulary of the properties.

FitOps == {"LMM.fit", "Kron2Sum.fit", "GLMMExpFam.fit", "GLMMNormal.fit"}
OpsCalled == { calls[i].op : i \in 1..Len(calls) }
Positions(op) == { i \in 1..Len(calls) : calls[i].op = op }
IsScanCall(c) == c.op = "scan"
ScanCalls == SelectSeq(calls, IsScanCall)

Ended == pc \in {"returned", "failed"}
IdxResolved == idx.len >= 0
\* idx omitted and a single trait: the fast path
FastCase == IdxResolved /\ ~idx.given /\ data.ntraits = 1
\* an explicit idx, or more than one trait: the general path
GeneralCase == IdxResolved /\ (idx.given \/ data.ntraits > 1)
Wrapped(e) == [scalar |-> FALSE, cols |-> e.cols]

\* C1: a call whose lower-cased likelihood name is unsupported ends with the
\* invalid-likelihood error, nothing having been conformed, factorized,
\* fitted or printed.
C1_InvalidLikelihoodFailsFast ==
    (pc \notin {"start", "assert_likelihood"} /\ lower(lik_arg.name) \notin ValidLikelihoods)
        => /\ pc = "failed"
           /\ error = "InvalidLikelihood"
           /\ calls = <<>>
           /\ out = <<>>

\* C2: once the conformed Y, M or K holds a non-finite value, the scan goes
\* no further than assert_finite: economic_qs and the fitters are never
\* called, the call fails, and no Result is returned.
C2_NonFiniteFailsBeforeFitting ==
    "nonfinite" \in {data.Y, data.M, data.K}
        => /\ pc \in {"assert_finite", "failed"}
           /\ pc = "failed" => error = "NonFiniteInput"
           /\ OpsCalled \cap (FitOps \cup {"economic_qs"}) = {}
           /\ result = NoResult

C2_Witness ==
    /\ pc = "failed"
    /\ error = "NonFiniteInput"
    /\ data.Y = "finite" /\ data.M = "finite" /\ data.K = "nonfinite"

\* C3 as stated: a returned scan has added one record per entry, in
\* iteration order, created after the last add, and the recorded test
\* identities are the iterated entries themselves.
C3_IdentitiesAreEntries ==
    (pc = "returned" /\ result.created)
        => /\ Len(added) = Len(iterated)
           /\ \A k \in 1..Len(added) : added[k].id = iterated[k]

\* C3 as amended: one add_test per iterated entry, in iteration order, the
\* index set being 0..m-1 when idx is omitted; create() is called once, after
\* the last add_test; the recorded identity is the entry itself on the fast
\* path, and on the general path the entry with a bare integer k recorded as
\* the list [k].
C3_RecordsFollowIteration ==
    /\ Len(added) <= Len(iterated)
    /\ Cardinality(Positions("add_test")) = Len(added)
    /\ \A k \in 1..Len(added) :
          added[k].id = IF FastCase THEN iterated[k] ELSE Wrapped(iterated[k])
    /\ \A c \in Positions("create") : \A a \in Positions("add_test") : a < c
    /\ Positions("create") # {} => pc = "returned"
    /\ pc = "returned"
          => /\ Cardinality(Positions("create")) = 1
             /\ Len(added) = Len(iterated)
             /\ Len(iterated) = idx.len
             /\ ~idx.given => iterated = [k \in 1..data.ncols |-> PyInt(k - 1)]

C3_Witness ==
    /\ pc = "returned"
    /\ idx.given
    /\ Len(added) = 2
    /\ iterated[1].scalar /\ ~iterated[2].scalar

\* C4: with idx omitted and a single trait, fast_scan is called once on the
\* whole of G, scanner.scan is never called, and the narrow and broad records
\* of every column i are the same renamed i-th slice of the fast_scan result.
C4_FastPathDegenerate ==
    FastCase
        => /\ "scan" \notin OpsCalled
           /\ Cardinality(Positions("fast_scan")) <= 1
           /\ pc \in {"fast_loop", "returned"} => Cardinality(Positions("fast_scan")) = 1
           /\ \A c \in Positions("fast_scan") :
                 calls[c].g.cols = [j \in 1..data.ncols |-> j - 1]
           /\ \A k \in 1..Len(added) :
                 /\ added[k].h1 = added[k].h2
                 /\ added[k].h1.lml = fast["lml"][k]
                 /\ added[k].h1.covariate_effsizes = fast["effsizes0"][k]
                 /\ added[k].h1.covariate_effsizes_se = fast["effsizes0_se"][k]
                 /\ added[k].h1.candidate_effsizes = fast["effsizes1"][k]
                 /\ added[k].h1.candidate_effsizes_se = fast["effsizes1_se"][k]
                 /\ added[k].h1.scale = fast["scale"][k]

C4_Witness ==
    /\ FastCase
    /\ pc = "returned"
    /\ Len(added) = data.ncols
    /\ data.ncols > 1

\* C5: on the general path a bare integer entry k is scanned and recorded as
\* the list [k] and a list entry as itself: the selection handed to both
\* scans is two-dimensional over the entry's columns, and the identity, the
\* selections and the records of an entry are those of the entry written as
\* a list.
C5_ScalarIndexIsSingleton ==
    GeneralCase
        => /\ \A k \in 1..Len(added) :
                 /\ added[k].id = PyList(iterated[k].cols)
                 /\ added[k].h1.lml.g = [ndim |-> 2, cols |-> iterated[k].cols]
                 /\ added[k].h2.lml.g = [ndim |-> 2, cols |-> iterated[k].cols]
           /\ \A j \in 1..Len(ScanCalls) :
                 ScanCalls[j].g = [ndim |-> 2, cols |-> iterated[(j + 1) \div 2].cols]
           /\ pc = "returned" => Len(added) = idx.len

C5_Witness ==
    /\ GeneralCase
    /\ pc = "returned"
    /\ Len(added) = 2
    /\ iterated[1] = PyList(<<0, 1>>)
    /\ iterated[2] = PyInt(1)
    /\ added[2].id = PyList(<<1>>)

\* C6: the fitter called is decided by likelihood and trait count: normal and
\* one trait the single-trait LMM, normal and several traits the Kronecker
\* LMM, any other likelihood the two-stage GLMM, and the GLMM only ever for
\* one trait.
C6_OneFamilyByLikAndTraits ==
    (OpsCalled \cap FitOps # {})
        => /\ (lik_name = s_normal /\ data.ntraits = 1)
                 => OpsCalled \cap FitOps = {"LMM.fit"}
           /\ (lik_name = s_normal /\ data.ntraits > 1)
                 => OpsCalled \cap FitOps = {"Kron2Sum.fit"}
           /\ lik_name # s_normal
                 => /\ OpsCalled \cap FitOps \subseteq {"GLMMExpFam.fit", "GLMMNormal.fit"}
                    /\ data.ntraits = 1

\* C7: a lik given as a name, a tuple or a list, with a supported name in any
\* letter case, is normalised without error to the lower-cased name followed
\* by the auxiliary elements unchanged.
C7_LikSequenceNormalised ==
    (pc # "start" /\ lower(lik_arg.name) \in ValidLikelihoods)
        => /\ ~(pc = "failed" /\ error \in {"TypeError", "InvalidLikelihood"})
           /\ lik = [form |-> "tuple", name |-> lower(lik_arg.name), aux |-> lik_arg.aux]

\* C8: scan() returns only a Result created from a record for every entry of
\* the resolved index set; any failure leaves scan() as an error, and no
\* Result, in particular none of the tests added so far, is returned.
C8_CompleteResultOrError ==
    /\ pc = "returned"
          => /\ error = "none"
             /\ result.created
             /\ result.tests = added
             /\ Len(result.tests) = idx.len
             /\ Len(iterated) = idx.len
    /\ pc = "failed" => (error # "none" /\ result = NoResult)
    /\ ~Ended => (error = "none" /\ result = NoResult)

C8_Witness ==
    /\ pc = "failed"
    /\ error = "ScanFailure"
    /\ Len(added) >= 1
    /\ result = NoResult

\* C9: for a single trait and idx omitted, a call that omits A, A0 or A1
\* runs on the same design matrices, hands the same env coordinates to the
\* factory and the same arguments to the scanner as the call that passes
\* eye(1), zeros((1, 0)) and eye(1).
C9_DefaultsAreExplicitDefaults ==
    (/\ FastCase
     /\ args.A \in {NoneM, eye(1)}
     /\ args.A0 \in {NoneM, zeros(1, 0)}
     /\ args.A1 \in {NoneM, eye(1)})
        => /\ A = eye(1)
           /\ A0 = _asarray(zeros(1, 0), "env0", <<"sample", "env">>)
           /\ A1 = _asarray(eye(1), "env1", <<"sample", "env">>)
           /\ A01.values = <<<<1>>>>
           /\ \A c \in Positions("ScanResultFactory") : calls[c].A = <<<<>>, <<0>>>>
           /\ \A c \in Positions("fast_scan") : calls[c].A = NoneM
           /\ scanner.null.A = NoneM
           /\ \A k \in 1..Len(added) : added[k].h1.lml.design = NoneM

C9_Witness ==
    /\ FastCase
    /\ pc = "returned"
    /\ args = [A |-> NoneM, A0 |-> NoneM, A1 |-> NoneM]
    /\ Len(added) >= 1

\* C10: from the moment the fitter has returned, no step changes the scanner,
\* the factorization or the variance components, and the records of an entry
\* are decided by its columns and the fitted null model: an entry scanned at
\* two places of the index set gets the same records.
ScanningPhase == pc \in {"factory", "branch", "fast_scan", "fast_loop", "loop"}
C10_ScanningIsReadOnly ==
    [][ScanningPhase
         => /\ scanner' = scanner
            /\ QS' = QS
            /\ C0' = C0
            /\ C1' = C1
            /\ \A k \in 1..Len(added') :
                  /\ added'[k].h1.lml.null = scanner'.null
                  /\ added'[k].h2.lml.null = scanner'.null
                  /\ added'[k].h1.lml.g.cols = iterated'[k].cols
                  /\ \A n \in 1..Len(added') :
                        iterated'[n].cols = iterated'[k].cols
                           => (added'[n].h1 = added'[k].h1 /\ added'[n].h2 = added'[k].h2)]_vars

C10_Witness ==
    /\ pc = "loop"
    /\ Len(added) = 2
    /\ iterated[1] = PyInt(0)
    /\ iterated[2] = PyList(<<0>>)
    /\ added[1].h2 = added[2].h2

\* C11: every ScannerWrapper.scan call made on a FastScanner backend is given
\* a design of zero columns, so its assertion never fails; in particular
\* both scan(A0, g) and scan(A01, g) of a single-trait scan with an explicit
\* idx and the default A0 and A1.
C11_FastScannerDesignIsEmpty ==
    scanner.backend = "FastScanner"
        => /\ \A j \in 1..Len(ScanCalls) : ncolumns(ScanCalls[j].A) = 0
           /\ error # "AssertionError"

====
